---- MODULE Spec2Model ----
(***************************************************************************)
(* A model of tidal (package tidal, migration.go): the transactional       *)
(* Up/Down executor of a Migration against a SQL database, and the         *)
(* process-wide sorted registry of migrations.                             *)
(*                                                                         *)
(* The database is the external collaborator of Up and Down.  It is        *)
(* modelled as a transactional store: a transaction works on a private     *)
(* copy of the committed state, Commit installs the copy, Rollback drops   *)
(* it.  Every call into the database (Begin, Exec, Commit, Rollback) can   *)
(* succeed, return an error or panic.                                      *)
(***************************************************************************)
EXTENDS Integers, Sequences, FiniteSets, TLC

\* ---------------------------------------------------------------- bounds
\* Application revisions are 1..MaxRev; revision 0 is the migrations table.
MaxRev == 2
\* Timestamps time.Now().UTC() can yield are 1..MaxTime.
MaxTime == 1
\* Revisions handed to Register are 0..MaxRegRev.
MaxRegRev == 3
\* Source texts handed to Open have at most MaxLines lines.
MaxLines == 3

Revs == 0..MaxRev
AppRevs == 1..MaxRev
Times == 1..MaxTime
\* SQL NULL in the applied column.
NULL == 0

VARIABLES
    db,         \* the committed database state
    tx,         \* the open transaction's working copy of the database
    pc,         \* position of the running Up/Down call
    cur,        \* the running call: the receiver m and the direction
    err,        \* the named result err of Up/Down
    panicking,  \* a panic is in flight
    calls,      \* the database calls this invocation has issued, in order
    pre,        \* the committed database state when the call started
    migrations, \* the registry: var migrations []Migration
    last,       \* the outcome of the last registry operation
    goroutines, \* the concurrent Register calls: position, argument, index i
    serialized  \* the callers run their Register calls one after the other

vars == <<db, tx, pc, cur, err, panicking, calls, pre, migrations, last,
          goroutines, serialized>>
execVars == <<db, tx, pc, cur, err, panicking, calls, pre>>
regVars == <<migrations, last>>
concVars == <<goroutines, serialized>>

\* ------------------------------------------------------------- the database
\* A row of the migrations table (0000_migrations_schema.sql): active
\* defaults to false, applied is nullable.
NoRow == [present |-> FALSE, active |-> FALSE, applied |-> NULL]
DefaultRow == [present |-> TRUE, active |-> FALSE, applied |-> NULL]

\* A database state: the revisions whose schema change is in effect (0 is the
\* migrations table itself) and the rows of the migrations table.
EmptyDB == [schema |-> {}, rows |-> [r \in AppRevs |-> NoRow]]

\* The databases a call can start from: no migrations table yet, or a
\* migrations table holding default rows for some of the revisions.
StartDBs ==
    {EmptyDB} \cup
    {[schema |-> {0}, rows |-> [r \in AppRevs |-> IF r \in S THEN DefaultRow ELSE NoRow]] :
        S \in SUBSET AppRevs}

\* The effect of a revision's up SQL.  Revision 0 creates the migrations
\* table IF NOT EXISTS (existing rows stay); the others apply their schema.
ExecUpSQL(d, r) == [d EXCEPT !.schema = @ \cup {r}]

\* The effect of a revision's down SQL.  Revision 0 drops the migrations
\* table and with it every row; the others drop their schema.
ExecDownSQL(d, r) ==
    IF r = 0
    THEN [schema |-> d.schema \ {0}, rows |-> [q \in AppRevs |-> NoRow]]
    ELSE [d EXCEPT !.schema = @ \ {r}]

\* ------------------------------------------------------------ the entities
\* A descriptor either holds a section or not (Descriptor.Up/Down fail on a
\* missing section).
Descriptors == [up : BOOLEAN, down : BOOLEAN]

\* Strings are sequences of one-character strings.
NameA == <<"a">>

\* The exported state and the dbsync flag of a Migration: as Open leaves
\* them (zero values), or as read from a row of an applied migration.
Unsynced == [Name |-> NameA, Active |-> FALSE, Applied |-> NULL,
             Created |-> NULL, dbsync |-> FALSE]
Synced == [Name |-> NameA, Active |-> TRUE, Applied |-> MaxTime,
           Created |-> MaxTime, dbsync |-> TRUE]
Fields == {Unsynced, Synced}

\* type Migration struct
MigrationOf(r, f, d) ==
    [Revision |-> r, Name |-> f.Name, Active |-> f.Active, Applied |-> f.Applied,
     Created |-> f.Created, descriptor |-> d, dbsync |-> f.dbsync]

\* The Migration values Up and Down are called on: as Open builds them, no
\* field but Revision, Name and descriptor set.
Migrations == {MigrationOf(r, Unsynced, d) : r \in Revs, d \in Descriptors}

\* Migrations of the schema revision and of the highest revision, with both
\* sections, in either state.
Entities ==
    {MigrationOf(r, f, [up |-> TRUE, down |-> TRUE]) : r \in {0, MaxRev}, f \in Fields}

\* ------------------------------------------------------------------ errors
Nil == [op |-> "nil", revs |-> {}]
\* fmt.Errorf("... revision %d ...: %s", m.Revision, err)
Errorf(op, m) == [op |-> op, revs |-> {m.Revision}]
\* An error of the driver handed on as it is.
Raw(op) == [op |-> op, revs |-> {}]

\* What a call into the database can do: succeed, return an error, panic.
Outcomes == {"ok", "fail", "panic"}
\* An entry of the call log.  res is the call's result: one of Outcomes, or
\* "mismatch" when the driver rejects the statement because the arguments
\* given do not fit its placeholders.
Call(op, res) == [op |-> op, res |-> res]
Failed(c) == c.res \in {"fail", "mismatch"}

\* ------------------------------------------------- the bookkeeping statements
\* "UPDATE migrations SET active=$1, applied=$2 WHERE revision=$3"
\* executed with (true, time.Now().UTC(), m.Revision).
UpStatus == [placeholders |-> {1, 2, 3}, args |-> 3]
\* "UPDATE migrations SET active=$1, applied=NULL WHERE revision=$3"
\* executed with (false, m.Revision).
DownStatus == [placeholders |-> {1, 3}, args |-> 2]

Max(S) == CHOOSE x \in S : \A y \in S : y <= x
\* The driver binds positional arguments: a statement whose highest
\* placeholder is $n takes exactly n arguments.
BindOK(stmt) == Max(stmt.placeholders) = stmt.args

\* UpdateUp without its WHERE clause: every row of the table is updated.
UpdateUpEveryRow(d, r, t) ==
    [d EXCEPT !.rows = [q \in AppRevs |->
        IF @[q].present
        THEN [present |-> TRUE, active |-> TRUE, applied |-> t]
        ELSE @[q]]]

\* UPDATE ... SET active=true, applied=t WHERE revision=r: the rows matching
\* r change, the others do not; a table without such a row is left as it is.
UpdateUp(d, r, t) ==
    [d EXCEPT !.rows = [q \in AppRevs |->
        IF q = r /\ @[q].present
        THEN [present |-> TRUE, active |-> TRUE, applied |-> t]
        ELSE @[q]]]

\* UPDATE ... SET active=false, applied=NULL WHERE revision=r.
UpdateDown(d, r) ==
    [d EXCEPT !.rows = [q \in AppRevs |->
        IF q = r /\ @[q].present
        THEN [present |-> TRUE, active |-> FALSE, applied |-> NULL]
        ELSE @[q]]]

\* IsApplication off by one: revision 1 is exempted as well.
IsApplicationAboveOne(m) == m.Revision > 1

\* if m.Revision > 0: an application migration updates the status table.
IsApplication(m) == m.Revision > 0

\* ---------------------------------------------------------------- Up / Down
\* BeginError without the revision: the driver's error handed on as it is.
BeginErrorRaw(m) == Raw("begin")

\* conn.Begin() failed: the error returned at once.
BeginError(m) == Errorf("begin", m)

\* AfterBegin without the early return: the call goes on after a failed Begin.
AfterBeginNoReturn(o) == IF o = "panic" THEN "done" ELSE "sql"

\* Where Up/Down goes after conn.Begin(): on with the call, or out of it.
AfterBegin(o) == IF o = "ok" THEN "sql" ELSE "done"

\* AfterExec without the early return: the bookkeeping update follows a
\* failed SQL body.
AfterExecNoReturn(o, m) == IF o # "panic" /\ IsApplication(m) THEN "update" ELSE "defer"

\* AfterExec with a retry: a failed SQL body is executed again.
AfterExecRetry(o, m) ==
    IF o = "fail" THEN "exec"
    ELSE IF o = "ok" /\ IsApplication(m) THEN "update" ELSE "defer"

\* Where upTx/downTx goes after the SQL body: the bookkeeping update of an
\* application migration when the body succeeded, the return otherwise.
AfterExec(o, m) == IF o = "ok" /\ IsApplication(m) THEN "update" ELSE "defer"

\* DeferChoice without the err branch: an error return commits.
DeferChoiceNoErr(p, e) == IF p THEN "rollback" ELSE "commit"

\* DeferChoice without the recover branch: a panic with a nil err commits.
DeferChoiceNoRecover(p, e) == IF e # Nil THEN "rollback" ELSE "commit"

\* DeferChoice without the err branch's rollback: an error return leaves
\* the transaction as it is.
DeferChoiceOnlyPanic(p, e) ==
    IF p THEN "rollback" ELSE IF e # Nil THEN "none" ELSE "commit"

\* The deferred function's choice: roll back on a panic or a non-nil err,
\* commit otherwise.
DeferChoice(p, e) ==
    IF p THEN "rollback" ELSE IF e # Nil THEN "rollback" ELSE "commit"

\* CommitResult with the commit's error dropped: tx.Commit() unassigned.
CommitResultDropped(o) == Nil

\* err after tx.Commit() returned: err = tx.Commit().
CommitResult(o) == IF o = "ok" THEN Nil ELSE Raw("commit")

\* RollbackResult with the rollback's error kept: err = tx.Rollback().
RollbackResultKept(e, o) == IF o = "fail" THEN Raw("rollback") ELSE e

\* err after tx.Rollback() returned: the call's result is not assigned.
RollbackResult(e, o) == e

\* EntityAfter with the receiver brought up to date: a committed Up sets
\* m.Active, a committed Down clears it.
EntityAfterSetsActive(m, dir, committed) ==
    IF committed THEN [m EXCEPT !.Active = (dir = "up")] ELSE m

\* The receiver *m when Up/Down ends: no statement of Up, upTx, Down or
\* downTx assigns to a field of m.
EntityAfter(m, dir, committed) == m

\* Up/Down up to conn.Begin(): a failure returns at once, before the deferred
\* function is installed.
Begin(m, dir) ==
    /\ pc \in {"idle", "done"}
    /\ cur' = [m |-> m, dir |-> dir]
    /\ pre' = db
    /\ \E o \in Outcomes :
        /\ calls' = <<Call("begin", o)>>
        /\ tx' = IF o = "ok" THEN db ELSE EmptyDB
        /\ pc' = AfterBegin(o)
        /\ err' = IF o = "fail" THEN BeginError(m) ELSE Nil
        /\ panicking' = (o = "panic")
    /\ UNCHANGED <<db, regVars, concVars>>

\* GetSQL with the section's error ignored: the call goes on to tx.Exec.
GetSQLIgnoreMissing(dir) ==
    /\ pc = "sql" /\ cur.dir = dir
    /\ pc' = "exec"
    /\ UNCHANGED <<db, tx, cur, err, panicking, calls, pre, regVars, concVars>>

\* m.UpSQL() / m.DownSQL(): the descriptor's section, or an error when the
\* descriptor has none.
GetSQL(dir) ==
    /\ pc = "sql" /\ cur.dir = dir
    /\ LET has == IF dir = "up" THEN cur.m.descriptor.up ELSE cur.m.descriptor.down
       IN  IF has
           THEN pc' = "exec" /\ err' = err
           ELSE pc' = "defer" /\ err' = Errorf("parse", cur.m)
    /\ UNCHANGED <<db, tx, cur, panicking, calls, pre, regVars, concVars>>

\* tx.Exec(sql): the direction's SQL body.
ExecBody(dir) ==
    /\ pc = "exec" /\ cur.dir = dir
    /\ \E o \in Outcomes :
        /\ calls' = Append(calls, Call("exec", o))
        /\ tx' = IF o # "ok" THEN tx
                 ELSE IF dir = "up" THEN ExecUpSQL(tx, cur.m.Revision)
                 ELSE ExecDownSQL(tx, cur.m.Revision)
        /\ pc' = AfterExec(o, cur.m)
        /\ err' = IF o = "fail" THEN Errorf("exec", cur.m) ELSE err
        /\ panicking' = (o = "panic")
    /\ UNCHANGED <<db, cur, pre, regVars, concVars>>

\* tx.Exec(UPDATE migrations ...): the bookkeeping update.  The driver rejects
\* a statement whose arguments do not fit; the database fails the statement
\* when the migrations table does not exist, and may fail it anyway.
ExecStatus(dir) ==
    /\ pc = "update" /\ cur.dir = dir
    /\ LET stmt == IF dir = "up" THEN UpStatus ELSE DownStatus
           possible == IF ~BindOK(stmt) THEN {"mismatch"}
                       ELSE IF 0 \notin tx.schema THEN {"fail"}
                       ELSE Outcomes
       IN  \E o \in possible, t \in Times :
            /\ calls' = Append(calls, Call("update", o))
            /\ tx' = IF o # "ok" THEN tx
                     ELSE IF dir = "up" THEN UpdateUp(tx, cur.m.Revision, t)
                     ELSE UpdateDown(tx, cur.m.Revision)
            /\ err' = IF o \in {"fail", "mismatch"} THEN Errorf("update", cur.m) ELSE err
            /\ panicking' = (o = "panic")
    /\ pc' = "defer"
    /\ UNCHANGED <<db, cur, pre, regVars, concVars>>

\* The deferred function: recover and roll back and panic again; or roll back
\* on an error, dropping the rollback's own error; or commit and return the
\* commit's error.
Deferred(dir) ==
    /\ pc = "defer" /\ cur.dir = dir
    /\ LET op == DeferChoice(panicking, err)
       IN  \E o \in Outcomes :
            /\ calls' = Append(calls, Call(op, o))
            /\ db' = IF op = "commit" /\ o = "ok" THEN tx ELSE db
            /\ err' = IF o = "panic" THEN err
                      ELSE IF op = "commit" THEN CommitResult(o)
                      ELSE RollbackResult(err, o)
            /\ panicking' = (panicking \/ o = "panic")
            /\ cur' = [cur EXCEPT !.m = EntityAfter(@, dir, op = "commit" /\ o = "ok")]
    /\ pc' = "done"
    /\ tx' = EmptyDB
    /\ UNCHANGED <<pre, regVars, concVars>>

Up(m) == Begin(m, "up")
UpSQL == GetSQL("up")
upTxExec == ExecBody("up")
upTxStatus == ExecStatus("up")
UpDeferred == Deferred("up")

Down(m) == Begin(m, "down")
DownSQL == GetSQL("down")
downTxExec == ExecBody("down")
downTxStatus == ExecStatus("down")
DownDeferred == Deferred("down")

\* ------------------------------------------------------------ the registry
\* Strings are sequences of one-character strings.
Digits == {"0", "1", "2", "3", "4", "5", "6", "7", "8", "9"}
Letters == {"a", "b", "f", "l", "o", "q", "s", "t", "x"}
\* The class [\w\d_-] of fnamere.
WordChars == Letters \cup Digits \cup {"_", "-"}
DotSQL == <<".", "s", "q", "l">>

\* The file names the model feeds in.
File1 == <<"1", "_", "a", ".", "s", "q", "l">>
File2 == <<"2", "-", "b", ".", "s", "q", "l">>
File03 == <<"0", "3", "_", "a", "_", "b", ".", "s", "q", "l">>
FileFoo == <<"f", "o", "o", ".", "t", "x", "t">>
FileNoName == <<"1", "_", ".", "s", "q", "l">>
FileNames == {<<>>, File1, File2, File03, FileFoo, FileNoName}

\* The length of the leading run of digits of f.
RECURSIVE DigitRun(_, _)
DigitRun(f, n) ==
    IF n < Len(f) /\ f[n + 1] \in Digits THEN DigitRun(f, n + 1) ELSE n

\* fnamere: ^(\d+)[_-]([\w\d_-]+)\.sql$ .  \d+ takes the whole leading run of
\* digits (a separator is no digit), the second group is what lies between
\* the separator and the closing ".sql".
fnamereMatch(f) ==
    LET d == DigitRun(f, 0)
    IN  /\ d >= 1
        /\ Len(f) >= d + 6
        /\ f[d + 1] \in {"_", "-"}
        /\ SubSeq(f, Len(f) - 3, Len(f)) = DotSQL
        /\ \A k \in (d + 2)..(Len(f) - 4) : f[k] \in WordChars
\* groups[1] and groups[2] of fnamere.FindStringSubmatch on a match.
Group1(f) == SubSeq(f, 1, DigitRun(f, 0))
Group2(f) == SubSeq(f, DigitRun(f, 0) + 2, Len(f) - 4)

DigitVal(c) ==
    CASE c = "0" -> 0 [] c = "1" -> 1 [] c = "2" -> 2 [] c = "3" -> 3 [] c = "4" -> 4
      [] c = "5" -> 5 [] c = "6" -> 6 [] c = "7" -> 7 [] c = "8" -> 8 [] c = "9" -> 9
\* strconv.Atoi on a run of digits (the runs fed in are far below its range).
RECURSIVE Atoi(_)
Atoi(ds) ==
    IF ds = <<>> THEN 0
    ELSE 10 * Atoi(SubSeq(ds, 1, Len(ds) - 1)) + DigitVal(ds[Len(ds)])

\* strings.Replace(s, "_", " ", -1)
ReplaceUnderscores(w) == [k \in 1..Len(w) |-> IF w[k] = "_" THEN " " ELSE w[k]]

\* parseFilename: groups is nil when fnamere does not match, and groups[2]
\* then panics with an index out of range.
parseFilename(f) ==
    IF ~fnamereMatch(f)
    THEN [res |-> "panic", name |-> <<>>, revision |-> 0]
    ELSE [res |-> "ok", name |-> ReplaceUnderscores(Group2(f)),
          revision |-> Atoi(Group1(f))]

\* A registered Migration, as far as the registry reads it.
Entry(rev, name) == [Revision |-> rev, Name |-> name]
\* Migration{}
ZeroMigration == Entry(0, <<>>)

\* The Migration values handed to Register.
RegRevs == 0..MaxRegRev
Registrable == {Entry(r, n) : r \in RegRevs, n \in {<<>>, NameA}}

\* The descriptor blobs handed to RegisterDescriptor: Info() yields the file
\* name stored in the header, or fails on a blob it cannot read.
Blobs == [readable : BOOLEAN, filename : FileNames]

\* SearchPred with > for >=: an equal revision is not found.
SearchPredStrict(s, h, rev) == s[h + 1].Revision > rev

\* func(i int) bool { return migrations[i].Revision >= m.Revision }
SearchPred(s, h, rev) == s[h + 1].Revision >= rev

\* sort.Search(len(migrations), pred): the binary search for the smallest
\* index in [i, j) at which pred holds, j when there is none.
RECURSIVE SearchFrom(_, _, _, _)
SearchFrom(s, rev, i, j) ==
    IF i < j
    THEN LET h == (i + j) \div 2
         IN  IF ~SearchPred(s, h, rev)
             THEN SearchFrom(s, rev, h + 1, j)
             ELSE SearchFrom(s, rev, i, h)
    ELSE i
Search(s, rev) == SearchFrom(s, rev, 0, Len(s))

\* CopyUp left out: the tail is not shifted before the store.
CopyUpNone(a, i) == a

\* copy(migrations[i+1:], migrations[i:]) on the grown slice a.
CopyUp(a, i) == [k \in 1..Len(a) |-> IF k >= i + 2 THEN a[k - 1] ELSE a[k]]

\* migrations = append(migrations, Migration{})
Grow(s) == Append(s, ZeroMigration)

\* Store one index low: migrations[i-1] = m, index 0 kept.
StoreBelow(a, i, m) == [a EXCEPT ![IF i > 0 THEN i ELSE 1] = m]

\* migrations[i] = m
Store(a, i, m) == [a EXCEPT ![i + 1] = m]

\* Insort: append a zero Migration, shift the tail up by one, store m at i.
Insort(s, i, m) == Store(CopyUp(Grow(s), i), i, m)

\* IsDuplicate one index low: the entry before the insertion point is compared.
IsDuplicateBelow(s, i, m) == i > 0 /\ s[i].Revision = m.Revision

\* if i < len(migrations) && migrations[i].Revision == m.Revision
IsDuplicate(s, i, m) == i < Len(s) /\ s[i + 1].Revision = m.Revision

\* The registry after Register(m), and Register's result.
Registered(s, m) ==
    LET i == Search(s, m.Revision)
    IN  IF IsDuplicate(s, i, m)
        THEN [migrations |-> s, res |-> "duplicate"]
        ELSE [migrations |-> Insort(s, i, m), res |-> "ok"]

Outcome(op, res, rev) == [op |-> op, res |-> res, rev |-> rev]

Register(m) ==
    /\ LET r == Registered(migrations, m)
       IN  /\ migrations' = r.migrations
           /\ last' = Outcome("Register", r.res, m.Revision)
    /\ UNCHANGED <<execVars, concVars>>

RegisterDescriptor(data) ==
    /\ IF ~data.readable
       THEN /\ last' = Outcome("RegisterDescriptor", "info", 0)
            /\ UNCHANGED migrations
       ELSE IF data.filename = <<>>
       THEN /\ last' = Outcome("RegisterDescriptor", "header", 0)
            /\ UNCHANGED migrations
       ELSE LET p == parseFilename(data.filename)
            IN  IF p.res # "ok"
                THEN /\ last' = Outcome("RegisterDescriptor", p.res, 0)
                     /\ UNCHANGED migrations
                ELSE LET r == Registered(migrations, Entry(p.revision, p.name))
                     IN  /\ migrations' = r.migrations
                         /\ last' = Outcome("RegisterDescriptor", r.res, p.revision)
    /\ UNCHANGED <<execVars, concVars>>

\* ------------------------------------------- Register, statement by statement
\* Two goroutines call Register; each call advances by one statement of
\* Register at a time, and nothing in Register keeps the statements of two
\* calls apart.
Goroutines == {1, 2}
Other(g) == CHOOSE h \in Goroutines : h # g
Called(m) == [pc |-> "search", m |-> m, i |-> 0, res |-> "none"]
NotCalled == [pc |-> "done", m |-> ZeroMigration, i |-> 0, res |-> "none"]
\* The call of goroutine g is between its search and its store.
InRegister(g) == goroutines[g].pc \in {"append", "copy", "store"}

\* i := sort.Search(...) and the duplicate test.  Callers that serialize
\* their calls start one only when the other call is not under way.
RegisterSearch(g) ==
    /\ goroutines[g].pc = "search"
    /\ serialized => ~InRegister(Other(g))
    /\ LET m == goroutines[g].m
           i == Search(migrations, m.Revision)
       IN  IF IsDuplicate(migrations, i, m)
           THEN /\ goroutines' = [goroutines EXCEPT ![g].pc = "done",
                                                    ![g].res = "duplicate"]
                /\ last' = Outcome("Register", "duplicate", m.Revision)
           ELSE /\ goroutines' = [goroutines EXCEPT ![g].pc = "append", ![g].i = i]
                /\ last' = last
    /\ UNCHANGED <<migrations, serialized, execVars>>

\* migrations = append(migrations, Migration{})
RegisterAppend(g) ==
    /\ goroutines[g].pc = "append"
    /\ migrations' = Grow(migrations)
    /\ goroutines' = [goroutines EXCEPT ![g].pc = "copy"]
    /\ UNCHANGED <<last, serialized, execVars>>

\* copy(migrations[i+1:], migrations[i:])
RegisterCopy(g) ==
    /\ goroutines[g].pc = "copy"
    /\ migrations' = CopyUp(migrations, goroutines[g].i)
    /\ goroutines' = [goroutines EXCEPT ![g].pc = "store"]
    /\ UNCHANGED <<last, serialized, execVars>>

\* migrations[i] = m; return nil
RegisterStore(g) ==
    /\ goroutines[g].pc = "store"
    /\ migrations' = Store(migrations, goroutines[g].i, goroutines[g].m)
    /\ goroutines' = [goroutines EXCEPT ![g].pc = "done", ![g].res = "ok"]
    /\ last' = Outcome("Register", "ok", goroutines[g].m.Revision)
    /\ UNCHANGED <<serialized, execVars>>

\* The result of an ordinal query: the count n, or not registered.
Answer(op, res, rev, n) == [op |-> op, res |-> res, rev |-> rev, n |-> n]
NotRegistered == [res |-> "unregistered", n |-> 0]

\* for _, o := range migrations: the scan of Predecessors from count n on.  It
\* breaks on the revision, returns the error on a higher one, and runs out at
\* the end of the registry.
RECURSIVE PredScan(_, _, _)
PredScan(s, rev, n) ==
    IF n = Len(s) THEN [res |-> "end", n |-> n]
    ELSE IF rev = s[n + 1].Revision THEN [res |-> "break", n |-> n]
    ELSE IF s[n + 1].Revision > rev THEN NotRegistered
    ELSE PredScan(s, rev, n + 1)

\* PredecessorsOf without the check after the loop: a scan that runs out
\* returns its count.
PredecessorsOfNoEndCheck(s, rev) ==
    IF Len(s) = 0 THEN NotRegistered
    ELSE LET r == PredScan(s, rev, 0)
         IN  IF r.res = "unregistered" THEN NotRegistered
             ELSE [res |-> "ok", n |-> r.n]

\* m.Predecessors() on the registry s, for m.Revision = rev.
PredecessorsOf(s, rev) ==
    IF Len(s) = 0 THEN NotRegistered
    ELSE LET r == PredScan(s, rev, 0)
         IN  IF r.res = "unregistered" THEN NotRegistered
             ELSE IF r.n = Len(s) /\ s[r.n].Revision # rev THEN NotRegistered
             ELSE [res |-> "ok", n |-> r.n]

\* SuccessorsOf counting from the entry itself: len(migrations[i:]).
SuccessorsOfFromEntry(s, rev) ==
    LET i == Search(s, rev)
    IN  IF i < Len(s) /\ s[i + 1].Revision = rev
        THEN [res |-> "ok", n |-> IF i + 1 = Len(s) THEN 0 ELSE Len(s) - i]
        ELSE NotRegistered

\* m.Successors() on the registry s, for m.Revision = rev.  Its search
\* predicate, m.Revision <= migrations[i].Revision, is the one of Register.
SuccessorsOf(s, rev) ==
    LET i == Search(s, rev)
    IN  IF i < Len(s) /\ s[i + 1].Revision = rev
        THEN [res |-> "ok", n |-> IF i + 1 = Len(s) THEN 0 ELSE Len(s) - (i + 1)]
        ELSE NotRegistered

Predecessors(m) ==
    /\ LET r == PredecessorsOf(migrations, m.Revision)
       IN  last' = Answer("Predecessors", r.res, m.Revision, r.n)
    /\ UNCHANGED <<migrations, execVars, concVars>>

Successors(m) ==
    /\ LET r == SuccessorsOf(migrations, m.Revision)
       IN  last' = Answer("Successors", r.res, m.Revision, r.n)
    /\ UNCHANGED <<migrations, execVars, concVars>>

\* Reset that keeps the slice: the registered migrations stay.
ResetKeeps ==
    /\ migrations' = migrations
    /\ last' = Outcome("Reset", "ok", 0)
    /\ UNCHANGED <<execVars, concVars>>

\* migrations = make([]Migration, 0)
Reset ==
    /\ migrations' = <<>>
    /\ last' = Outcome("Reset", "ok", 0)
    /\ UNCHANGED <<execVars, concVars>>

\* ------------------------------------------------------------------- Open
\* filepath.Base: "." for the empty path, trailing slashes dropped, then what
\* follows the last slash; "/" for a path of slashes alone.
RECURSIVE StripSlashes(_)
StripSlashes(p) ==
    IF p # <<>> /\ p[Len(p)] = "/" THEN StripSlashes(SubSeq(p, 1, Len(p) - 1)) ELSE p
RECURSIVE LastElement(_)
LastElement(p) ==
    IF p = <<>> \/ p[Len(p)] = "/" THEN <<>>
    ELSE Append(LastElement(SubSeq(p, 1, Len(p) - 1)), p[Len(p)])
Base(p) ==
    IF p = <<>> THEN <<".">>
    ELSE IF StripSlashes(p) = <<>> THEN <<"/">>
    ELSE LastElement(StripSlashes(p))

\* The verb %q of fmt: the string between double quotes, a double quote and a
\* backslash inside it escaped with a backslash.
RECURSIVE Escape(_)
Escape(w) ==
    IF w = <<>> THEN <<>>
    ELSE IF w[1] \in {"\"", "\\"} THEN <<"\\", w[1]>> \o Escape(Tail(w))
    ELSE <<w[1]>> \o Escape(Tail(w))
Quote(w) == <<"\"">> \o Escape(w) \o <<"\"">>

\* The paths the model opens.
Dir == <<"t", "/">>
FileQuote == <<"a", "\"", "b">>
Paths == {<<>>, <<"/">>, FileFoo, Dir \o FileFoo, File1, Dir \o File03,
          Dir \o File2 \o <<"/">>, Dir \o FileNoName, Dir \o FileQuote}

\* The lines of a migration source: the three directives, a comment, a
\* statement and the blank line.
PackageLine == "-- package: foo"
UpLine == "-- migrate: up"
DownLine == "-- migrate: down"
Directives == {PackageLine, UpLine, DownLine}
Lines == Directives \cup {"-- note", "SELECT 1;", ""}
RECURSIVE TextsOf(_)
TextsOf(n) ==
    IF n = 0 THEN {<<>>}
    ELSE LET shorter == TextsOf(n - 1)
         IN  shorter \cup {Append(t, l) : t \in {u \in shorter : Len(u) = n - 1}, l \in Lines}
Texts == TextsOf(MaxLines)

\* Leading and trailing blank lines dropped.
RECURSIVE TrimLeft(_)
TrimLeft(b) == IF b # <<>> /\ b[1] = "" THEN TrimLeft(Tail(b)) ELSE b
RECURSIVE TrimRight(_)
TrimRight(b) ==
    IF b # <<>> /\ b[Len(b)] = "" THEN TrimRight(SubSeq(b, 1, Len(b) - 1)) ELSE b
Trim(b) == TrimRight(TrimLeft(b))

\* The directive parser's state before the first line: no section is open.
ParseStart ==
    [section |-> "none", package |-> "", up |-> <<>>, down |-> <<>>,
     hasUp |-> FALSE, hasDown |-> FALSE]

\* ParseLine keeping the directive lines: a directive opens its section and is
\* stored in it.
ParseLineKeepDirective(st, l) ==
    IF l = PackageLine THEN [st EXCEPT !.package = "foo", !.section = "none"]
    ELSE IF l = UpLine THEN [st EXCEPT !.section = "up", !.hasUp = TRUE, !.up = Append(@, l)]
    ELSE IF l = DownLine THEN [st EXCEPT !.section = "down", !.hasDown = TRUE, !.down = Append(@, l)]
    ELSE IF st.section = "up" THEN [st EXCEPT !.up = Append(@, l)]
    ELSE IF st.section = "down" THEN [st EXCEPT !.down = Append(@, l)]
    ELSE st

\* One line of the source: a directive is stripped and ends the open section,
\* a migrate directive opens its own; any other line goes to the open section
\* and is dropped when none is open.
ParseLine(st, l) ==
    IF l = PackageLine THEN [st EXCEPT !.package = "foo", !.section = "none"]
    ELSE IF l = UpLine THEN [st EXCEPT !.section = "up", !.hasUp = TRUE]
    ELSE IF l = DownLine THEN [st EXCEPT !.section = "down", !.hasDown = TRUE]
    ELSE IF st.section = "up" THEN [st EXCEPT !.up = Append(@, l)]
    ELSE IF st.section = "down" THEN [st EXCEPT !.down = Append(@, l)]
    ELSE st

RECURSIVE ParseFrom(_, _)
ParseFrom(st, text) ==
    IF text = <<>> THEN st ELSE ParseFrom(ParseLine(st, text[1]), Tail(text))

\* NewDescriptor(f, filename): the source read line by line, the bodies
\* trimmed of the blank lines around them.
NewDescriptor(text, filename) ==
    LET st == ParseFrom(ParseStart, text)
    IN  [filename |-> filename, package |-> st.package,
         up |-> Trim(st.up), down |-> Trim(st.down),
         hasUp |-> st.hasUp, hasDown |-> st.hasDown]

\* OpenErrorName with the path for the base name.
OpenErrorNamePath(path) == path

\* The name Open reports and parses: filename := filepath.Base(path).
OpenErrorName(path) == Base(path)

\* fmt.Errorf("could not parse %q as a migration filename", filename)
FormatError(filename) ==
    [text |-> "could not parse %q as a migration filename", arg |-> Quote(filename)]

\* Open(path) on a file system where os.Open(path) ends as fs and the file
\* holds text.  opened tells whether os.Open was called, parsed whether
\* NewDescriptor was.
OpenResult(path, text, fs) ==
    LET filename == OpenErrorName(path)
    IN  IF ~fnamereMatch(Base(path))
        THEN [op |-> "Open", res |-> "format", path |-> path, text |-> text,
              error |-> FormatError(filename), opened |-> FALSE, parsed |-> FALSE]
        ELSE IF fs = "fail"
        THEN [op |-> "Open", res |-> "nofile", path |-> path, text |-> text,
              opened |-> TRUE, parsed |-> FALSE]
        ELSE [op |-> "Open", res |-> "ok", path |-> path, text |-> text,
              opened |-> TRUE, parsed |-> TRUE,
              m |-> [Revision |-> parseFilename(filename).revision,
                     Name |-> parseFilename(filename).name,
                     descriptor |-> NewDescriptor(text, filename)]]

\* A pending call of Open.
OpenCall(path, text) == [op |-> "Open", res |-> "call", path |-> path, text |-> text]

Open ==
    /\ last.op = "Open" /\ last.res = "call"
    /\ \E fs \in {"ok", "fail"} : last' = OpenResult(last.path, last.text, fs)
    /\ UNCHANGED <<migrations, execVars, concVars>>

\* ------------------------------------------------------------ specification
InitExec ==
    /\ tx = EmptyDB
    /\ pc = "idle"
    /\ cur = [m |-> MigrationOf(0, Unsynced, [up |-> TRUE, down |-> TRUE]),
              dir |-> "up"]
    /\ err = Nil
    /\ panicking = FALSE
    /\ calls = <<>>
    /\ pre = db

\* The registry is empty at process start.
InitRegistry ==
    /\ migrations = <<>>
    /\ last = Outcome("none", "ok", 0)

\* No concurrent Register call is under way.
InitConc ==
    /\ goroutines = [g \in Goroutines |-> NotCalled]
    /\ serialized = TRUE

Init == db \in StartDBs /\ InitExec /\ InitRegistry /\ InitConc

Next ==
    \/ \E m \in Migrations : Up(m)
    \/ UpSQL
    \/ upTxExec
    \/ upTxStatus
    \/ UpDeferred
    \/ \E m \in Migrations : Down(m)
    \/ DownSQL
    \/ downTxExec
    \/ downTxStatus
    \/ DownDeferred

\* Up and Down calls against the database.
Spec == Init /\ [][Next]_vars

RegInit == db = EmptyDB /\ InitExec /\ InitRegistry /\ InitConc

RegNext ==
    \/ \E m \in Registrable : Register(m)
    \/ \E data \in Blobs : RegisterDescriptor(data)
    \/ Reset
    \/ \E m \in Registrable : Predecessors(m)
    \/ \E m \in Registrable : Successors(m)

\* Register, RegisterDescriptor, Reset and ordinal queries on the registry.
RegSpec == RegInit /\ [][RegNext]_vars

OpenInit ==
    /\ db = EmptyDB /\ InitExec /\ InitConc
    /\ migrations = <<>>
    /\ last \in {OpenCall(p, t) : p \in Paths, t \in Texts}

OpenNext == Open

\* A registry with a gap, and a database with the migrations table and a
\* row for every application revision.
GapRegistry == <<Entry(0, <<>>), Entry(MaxRev, NameA)>>
RowsDB == [schema |-> {0}, rows |-> [r \in AppRevs |-> DefaultRow]]

EntityInit ==
    /\ db = RowsDB /\ InitExec /\ InitConc
    /\ migrations = GapRegistry
    /\ last = Outcome("none", "ok", 0)

\* m.Predecessors() / m.Successors() on the Migration that Up and Down are
\* called on, between its Up/Down calls.
EntityPredecessors == pc \in {"idle", "done"} /\ Predecessors(cur.m)
EntitySuccessors == pc \in {"idle", "done"} /\ Successors(cur.m)

EntityNext ==
    \/ \E m \in Entities : Up(m)
    \/ UpSQL
    \/ upTxExec
    \/ upTxStatus
    \/ UpDeferred
    \/ \E m \in Entities : Down(m)
    \/ DownSQL
    \/ downTxExec
    \/ downTxStatus
    \/ DownDeferred
    \/ EntityPredecessors
    \/ EntitySuccessors

\* Up, Down, Predecessors and Successors on one Migration at a time.
EntitySpec == EntityInit /\ [][EntityNext]_vars

\* Two Register calls for distinct revisions on the registry a process
\* starts with, their callers serializing the calls or not.
ConcInit ==
    /\ db = EmptyDB /\ InitExec /\ InitRegistry
    /\ serialized \in BOOLEAN
    /\ \E a, b \in Registrable :
        /\ a.Revision # b.Revision
        /\ goroutines = [g \in Goroutines |-> IF g = 1 THEN Called(a) ELSE Called(b)]

ConcNext ==
    \E g \in Goroutines :
        \/ RegisterSearch(g)
        \/ RegisterAppend(g)
        \/ RegisterCopy(g)
        \/ RegisterStore(g)

\* Two Register calls, interleaved statement by statement.
ConcSpec == ConcInit /\ [][ConcNext]_vars

\* One Open call on each path and source text.
OpenSpec == OpenInit /\ [][OpenNext]_vars

\* -------------------------------------------------------------- properties
Has(op, res) == \E i \in DOMAIN calls : calls[i] = Call(op, res)
Issued(op) == \E i \in DOMAIN calls : calls[i].op = op
Count(op) == Cardinality({i \in DOMAIN calls : calls[i].op = op})
LastCall == calls[Len(calls)]
Done == pc = "done"
\* The call returned to its caller (it did not end in a panic).
Returned == pc = "done" /\ ~panicking
Rev == cur.m.Revision

\* C1: in the committed database no application revision has its schema
\* change in effect while its migrations row says inactive, nor a row that
\* says active while the schema change is not in effect: the SQL body and the
\* bookkeeping update are committed together or not at all.
C1_Atomic ==
    \A r \in AppRevs :
        db.rows[r].present => (db.rows[r].active <=> r \in db.schema)

\* An Up whose SQL body succeeded and whose bookkeeping update failed was
\* rolled back, in a database that holds a committed active revision.
C1_Witness ==
    /\ Done /\ IsApplication(cur.m) /\ cur.dir = "up"
    /\ Has("exec", "ok") /\ Has("update", "fail")
    /\ LastCall.op = "rollback"
    /\ \E r \in AppRevs : db.rows[r].active /\ r \in db.schema

\* C2: an Up of a revision r > 0 that returns nil has issued begin, the up
\* SQL, the bookkeeping update and commit, all successful; the committed
\* database has the up SQL's schema change, the migrations row of r (where the
\* table holds one) is active with a non-null applied timestamp, and every
\* other revision's row is as it was before the call.
C2_UpCommits ==
    (Returned /\ err = Nil /\ cur.dir = "up" /\ IsApplication(cur.m)) =>
        /\ calls = <<Call("begin", "ok"), Call("exec", "ok"),
                     Call("update", "ok"), Call("commit", "ok")>>
        /\ db.schema = pre.schema \cup {Rev}
        /\ pre.rows[Rev].present =>
              /\ db.rows[Rev].present
              /\ db.rows[Rev].active
              /\ db.rows[Rev].applied # NULL
        /\ \A q \in AppRevs \ {Rev} : db.rows[q] = pre.rows[q]

\* A successful Up that turned an inactive row active while another
\* revision's row exists.
C2_Witness ==
    /\ Returned /\ err = Nil /\ cur.dir = "up" /\ IsApplication(cur.m)
    /\ pre.rows[Rev].present /\ ~pre.rows[Rev].active
    /\ db.rows[Rev].active
    /\ \E q \in AppRevs \ {Rev} : pre.rows[q].present

\* C3: a Down of a revision r > 0 whose down SQL executes without error (on a
\* database that has the migrations table and fails or panics in no call)
\* performs the bookkeeping update, commits and returns nil, and the row of r
\* is then inactive with a null applied timestamp.
C3_DownDeactivates ==
    (/\ Done /\ cur.dir = "down" /\ IsApplication(cur.m)
     /\ Has("exec", "ok") /\ 0 \in pre.schema
     /\ \A i \in DOMAIN calls : calls[i].res \notin {"fail", "panic"}) =>
        /\ Has("update", "ok")
        /\ LastCall = Call("commit", "ok")
        /\ ~panicking /\ err = Nil
        /\ pre.rows[Rev].present => db.rows[Rev] = DefaultRow

\* C4: when the SQL body or the bookkeeping update fails, the next and last
\* database call of the invocation is the rollback, commit is never invoked,
\* err is the failing statement's error wrapped with the revision, and the
\* committed database is what it was before the call.
C4_FailureRollsBack ==
    \A i \in DOMAIN calls :
        (calls[i].op \in {"exec", "update"} /\ Failed(calls[i])) =>
            /\ \/ pc = "defer" /\ i = Len(calls)
               \/ Done /\ i = Len(calls) - 1 /\ LastCall.op = "rollback"
            /\ ~Issued("commit")
            /\ err = Errorf(calls[i].op, cur.m)
            /\ db = pre

\* A Down whose SQL body changed the transaction's state and whose
\* bookkeeping update failed, after the rollback.
C4_Witness ==
    /\ Done /\ cur.dir = "down" /\ IsApplication(cur.m)
    /\ Rev \in pre.schema
    /\ Has("exec", "ok")
    /\ Failed(calls[3]) /\ calls[3].op = "update"
    /\ LastCall.op = "rollback"

\* C5: when opening the transaction fails, the call is over at once: begin is
\* the only database call (no statement, no commit, no rollback), the call
\* returns the begin failure, and the database is unchanged.
C5_BeginFailure ==
    (calls # <<>> /\ calls[1] = Call("begin", "fail")) =>
        /\ Returned
        /\ calls = <<Call("begin", "fail")>>
        /\ err.op = "begin"
        /\ db = pre

\* A Down that failed to open its transaction.
C5_Witness ==
    /\ Done /\ cur.dir = "down"
    /\ calls = <<Call("begin", "fail")>>

\* C6: when the SQL body and, for a revision > 0, the bookkeeping update
\* succeeded, the call invokes commit exactly once, as its last database call,
\* and never rollback; it returns nil when the commit succeeds and the
\* commit's failure when it fails.
C6_CommitOutcome ==
    (Done /\ Has("exec", "ok") /\ (IsApplication(cur.m) => Has("update", "ok"))) =>
        /\ Count("commit") = 1
        /\ LastCall.op = "commit"
        /\ ~Issued("rollback")
        /\ LastCall.res = "ok" => (Returned /\ err = Nil)
        /\ LastCall.res = "fail" => (Returned /\ err = Raw("commit") /\ db = pre)

\* An Up of an application revision whose commit failed.
C6_Witness ==
    /\ Done /\ cur.dir = "up" /\ IsApplication(cur.m)
    /\ Has("update", "ok")
    /\ LastCall = Call("commit", "fail")

\* C7 (as stated): every error Up or Down returns names the migration's
\* revision.
C7_EveryErrorNamesRevision ==
    (Returned /\ err # Nil) => err.revs = {Rev}

\* C7 (amended): an error from opening the transaction, from reading the SQL,
\* from the SQL body or from the bookkeeping update names the migration's
\* revision; a commit failure is returned as the driver gave it, without the
\* revision.
C7_ErrorsNameRevisionButCommit ==
    (Returned /\ err # Nil) =>
        /\ err.op \in {"begin", "parse", "exec", "update", "commit"}
        /\ err.op # "commit" => err.revs = {Rev}
        /\ err.op = "commit" => err.revs = {}

\* A Down of the highest revision that failed to open its transaction.
C7_Witness ==
    /\ Returned /\ cur.dir = "down" /\ Rev = MaxRev
    /\ err = Errorf("begin", cur.m)

C9_BookkeepingOnlyAboveZero ==
    /\ Rev = 0 =>
        /\ ~Issued("update")
        /\ (Done /\ Has("exec", "ok")) => (Len(calls) = 3 /\ calls[3].op = "commit")
    /\ (Rev > 0 /\ Has("exec", "ok") /\ pc \in {"defer", "done"}) =>
        (Len(calls) >= 3 /\ calls[3].op = "update")

\* A Down of revision 0 that committed.
C9_Witness ==
    /\ Done /\ Rev = 0 /\ cur.dir = "down"
    /\ calls = <<Call("begin", "ok"), Call("exec", "ok"), Call("commit", "ok")>>
    /\ 0 \in pre.schema /\ 0 \notin db.schema

Ascending(s) == \A i \in 1..(Len(s) - 1) : s[i].Revision < s[i + 1].Revision

\* C10: after any sequence of Register, RegisterDescriptor and Reset calls
\* the registry is strictly ascending by revision, hence without two entries
\* of the same revision, whatever the order of registration.
C10_RegistryAscending ==
    /\ Ascending(migrations)
    /\ \A i, j \in DOMAIN migrations :
        migrations[i].Revision = migrations[j].Revision => i = j

\* A registry of every revision whose last entry came in at the front,
\* after the higher revisions.
C10_Witness ==
    /\ Len(migrations) = MaxRegRev + 1
    /\ last = Outcome("Register", "ok", 0)
    /\ migrations[1].Revision = 0

RegisteredRevs == {migrations[i].Revision : i \in DOMAIN migrations}
IsQuery == last.op \in {"Predecessors", "Successors"}

\* C11: a Register of a migration whose revision is in the registry fails
\* with the duplicate-revision error and leaves the registry as it was.
C11_DuplicateRejected ==
    [][\A m \in Registrable :
        (Register(m) /\ m.Revision \in RegisteredRevs) =>
            /\ last'.res = "duplicate"
            /\ migrations' = migrations]_vars

\* A duplicate of a middle entry was refused by a registry of three entries
\* or more.
C11_Witness ==
    /\ last.op = "Register" /\ last.res = "duplicate"
    /\ Len(migrations) >= 3
    /\ migrations[2].Revision = last.rev

\* C12: for a migration whose revision is registered, at position j of the k
\* entries (counted from 1), Predecessors returns j - 1 and Successors returns
\* k - j, both without error.
C12_OrdinalCounts ==
    IsQuery =>
        \A j \in DOMAIN migrations :
            migrations[j].Revision = last.rev =>
                /\ last.res = "ok"
                /\ last.op = "Predecessors" => last.n = j - 1
                /\ last.op = "Successors" => last.n = Len(migrations) - j

\* Successors of a middle entry of a registry of every revision.
C12_Witness ==
    /\ last.op = "Successors" /\ last.res = "ok"
    /\ Len(migrations) = MaxRegRev + 1
    /\ last.rev = 1 /\ last.n = MaxRegRev - 1

\* C13: Predecessors and Successors of a revision that is not registered fail
\* with the not-registered error: on the empty registry, below the lowest
\* revision, above the highest, and in a gap between two revisions.
C13_UnregisteredFails ==
    (IsQuery /\ last.rev \notin RegisteredRevs) => last.res = "unregistered"

\* Predecessors of a revision in a gap between two registered revisions.
C13_Witness ==
    /\ last.op = "Predecessors" /\ last.res = "unregistered"
    /\ \E a, b \in RegisteredRevs : a < last.rev /\ last.rev < b

\* Successors of a revision above the highest registered revision.
C13_WitnessAbove ==
    /\ last.op = "Successors" /\ last.res = "unregistered"
    /\ migrations # <<>>
    /\ \A a \in RegisteredRevs : a < last.rev

\* C14: RegisterDescriptor of a readable descriptor fails with the
\* header-missing error when the file name is empty and with a filename-parse
\* error, returned and not raised as a panic, when the file name is not empty
\* and does not match fnamere; the registry is unchanged in both cases.
C14_DescriptorErrors ==
    [][\A data \in Blobs :
        (RegisterDescriptor(data) /\ data.readable /\ ~fnamereMatch(data.filename)) =>
            /\ migrations' = migrations
            /\ last'.res = IF data.filename = <<>> THEN "header" ELSE "format"]_vars

\* An Open call that has ended on a base name fnamere does not match.
OpenedBadName ==
    last.op = "Open" /\ last.res # "call" /\ ~fnamereMatch(Base(last.path))
SpecialChars == {"\"", "\\"}
\* A quoted string read back: the quotes dropped, each backslash dropped and
\* the character after it kept.
RECURSIVE Unescape(_)
Unescape(w) ==
    IF w = <<>> THEN <<>>
    ELSE IF w[1] = "\\" /\ Len(w) >= 2 THEN <<w[2]>> \o Unescape(SubSeq(w, 3, Len(w)))
    ELSE <<w[1]>> \o Unescape(Tail(w))
Unquote(w) == Unescape(SubSeq(w, 2, Len(w) - 1))

\* C15 (as stated): Open on a path whose base name does not match fnamere
\* fails with the format error, which names the base name verbatim (between
\* the double quotes of the message), before the file is opened or parsed.
C15_NamesBaseVerbatim ==
    OpenedBadName =>
        /\ last.res = "format"
        /\ last.error.arg = <<"\"">> \o Base(last.path) \o <<"\"">>
        /\ ~last.opened /\ ~last.parsed

\* C15 (amended): Open on a path whose base name does not match fnamere
\* fails with the format error before the file is opened or parsed; the
\* error names the base name as %q quotes it: verbatim between double quotes
\* when the name holds no double quote and no backslash, with those
\* characters escaped by a backslash otherwise.
C15_NamesBaseQuoted ==
    OpenedBadName =>
        /\ last.res = "format"
        /\ Unquote(last.error.arg) = Base(last.path)
        /\ last.error.arg[1] = "\"" /\ last.error.arg[Len(last.error.arg)] = "\""
        /\ (\A k \in DOMAIN Base(last.path) : Base(last.path)[k] \notin SpecialChars) =>
              last.error.arg = <<"\"">> \o Base(last.path) \o <<"\"">>
        /\ ~last.opened /\ ~last.parsed

\* Open("t/foo.txt") failed naming "foo.txt".
C15_Witness ==
    /\ OpenedBadName
    /\ last.path = Dir \o FileFoo
    /\ last.error.arg = <<"\"">> \o FileFoo \o <<"\"">>
    /\ ~last.opened

\* Line k of text lies in the section marker opens: it is no directive, and
\* the nearest directive before it is marker.
InSection(text, k, marker) ==
    /\ text[k] \notin Directives
    /\ \E j \in 1..(k - 1) :
        /\ text[j] = marker
        /\ \A i \in (j + 1)..(k - 1) : text[i] \notin Directives
\* The lines of a section, in the order of the source.
RECURSIVE SectionLines(_, _, _)
SectionLines(text, marker, k) ==
    IF k = 0 THEN <<>>
    ELSE IF InSection(text, k, marker)
    THEN Append(SectionLines(text, marker, k - 1), text[k])
    ELSE SectionLines(text, marker, k - 1)
Parsed == last.op = "Open" /\ last.res = "ok"

\* C16: the up body of a parsed source holds only the lines that follow a
\* "-- migrate: up" directive up to the next directive or the end, in their
\* order, and the down body likewise for "-- migrate: down"; no body holds a
\* directive line, nor a line from before the first migrate directive.
C16_BodiesAreSections ==
    Parsed =>
        LET d == last.m.descriptor
            text == last.text
        IN  /\ d.up = Trim(SectionLines(text, UpLine, Len(text)))
            /\ d.down = Trim(SectionLines(text, DownLine, Len(text)))
            /\ \A i \in DOMAIN d.up : d.up[i] \notin Directives
            /\ \A i \in DOMAIN d.down : d.down[i] \notin Directives

\* A source with a statement before its up directive and one after it: the
\* up body is the one after it.
C16_Witness ==
    /\ Parsed
    /\ last.text = <<"-- note", UpLine, "SELECT 1;">>
    /\ last.m.descriptor.up = <<"SELECT 1;">>
    /\ last.m.descriptor.down = <<>>

\* The operations of the calls issued so far, in their order.
Ops == [i \in DOMAIN calls |-> calls[i].op]
IsStep(op) == op # "rollback"
\* The steps of a call on revision r, in the order of the code.
StepOrder(r) ==
    IF r > 0 THEN <<"begin", "exec", "update", "commit">>
    ELSE <<"begin", "exec", "commit">>
IsPrefix(s, t) == Len(s) <= Len(t) /\ s = SubSeq(t, 1, Len(s))

\* C17: within one Up or Down call the steps are issued in the order begin,
\* SQL body, bookkeeping update (revision > 0 only), commit; each step is
\* issued at most once, and after a step that failed nothing is issued but
\* the rollback.
C17_StepsInOrder ==
    pc # "idle" =>
        /\ IsPrefix(SelectSeq(Ops, IsStep), StepOrder(Rev))
        /\ \A op \in {"begin", "exec", "update", "commit", "rollback"} : Count(op) <= 1
        /\ \A i, j \in DOMAIN calls :
            (i < j /\ calls[i].res # "ok") => calls[j].op = "rollback"

\* An Up of an application revision that issued all four steps, once each.
C17_Witness ==
    /\ Done /\ cur.dir = "up" /\ Rev > 0
    /\ Ops = <<"begin", "exec", "update", "commit">>

\* C18: a call that opened its transaction ends, by returning or by a
\* panic, with one commit or one rollback on it, never both and never
\* neither, and that call is the last one; until then neither is issued.
C18_OneTerminatingCall ==
    Has("begin", "ok") =>
        /\ Done => /\ Count("commit") + Count("rollback") = 1
                   /\ LastCall.op \in {"commit", "rollback"}
        /\ ~Done => Count("commit") + Count("rollback") = 0

\* A Down whose SQL body failed ended with the rollback alone.
C18_Witness ==
    /\ Done /\ cur.dir = "down"
    /\ Has("begin", "ok") /\ Has("exec", "fail")
    /\ Count("rollback") = 1 /\ Count("commit") = 0

\* C19: when a failed statement (SQL body or bookkeeping update) set off
\* the rollback, the call returns that statement's error whether the
\* rollback succeeded or failed.
C19_RollbackOutcomeIgnored ==
    (/\ Done /\ Len(calls) >= 3
     /\ LastCall.op = "rollback" /\ LastCall.res \in {"ok", "fail"}
     /\ calls[Len(calls) - 1].op \in {"exec", "update"}
     /\ Failed(calls[Len(calls) - 1])) =>
        /\ Returned
        /\ err = Errorf(calls[Len(calls) - 1].op, cur.m)

\* The rollback after a failed SQL body failed too, and the call returned
\* the SQL body's error.
C19_Witness ==
    /\ Done /\ Returned
    /\ calls = <<Call("begin", "ok"), Call("exec", "fail"), Call("rollback", "fail")>>
    /\ err = Errorf("exec", cur.m)

\* The descriptor of the current call has no section for its direction.
SectionMissing ==
    IF cur.dir = "up" THEN ~cur.m.descriptor.up ELSE ~cur.m.descriptor.down

\* C20: when the descriptor has no section for the direction, no SQL body,
\* no bookkeeping update and no commit is issued, the opened transaction is
\* rolled back, the database is left as it was, and the call returns an
\* error that names the revision.
C20_MissingSection ==
    (pc \in {"defer", "done"} /\ Has("begin", "ok") /\ SectionMissing) =>
        /\ ~Issued("exec") /\ ~Issued("update") /\ ~Issued("commit")
        /\ err = Errorf("parse", cur.m) /\ Rev \in err.revs
        /\ Done => /\ Len(calls) = 2 /\ LastCall.op = "rollback"
                   /\ db = pre
                   /\ LastCall.res # "panic" => Returned

\* An Up of revision 1 with no up section returned after the rollback.
C20_Witness ==
    /\ Returned /\ cur.dir = "up" /\ Rev = 1 /\ SectionMissing
    /\ calls = <<Call("begin", "ok"), Call("rollback", "ok")>>
    /\ err = Errorf("parse", cur.m)

\* The position of a new revision among the entries of s, counted from 1:
\* one past the entries of lower revision.
PlaceOf(s, rev) == Cardinality({k \in DOMAIN s : s[k].Revision < rev}) + 1

\* C21: a Register of a migration whose revision is not in the registry
\* succeeds and grows the registry by one entry: the new entry sits at the
\* one position that keeps the revisions ascending, the entries before it
\* are the former entries of lower revision and the entries after it the
\* former entries of higher revision, each unmodified and in the former
\* order.
C21_RegisterInsertsOne ==
    [][\A m \in Registrable :
        (Register(m) /\ m.Revision \notin RegisteredRevs) =>
            LET p == PlaceOf(migrations, m.Revision)
            IN  /\ last'.res = "ok"
                /\ Len(migrations') = Len(migrations) + 1
                /\ migrations'[p] = m
                /\ \A k \in DOMAIN migrations :
                    migrations[k] = migrations'[IF k < p THEN k ELSE k + 1]
                /\ \A k \in 1..(Len(migrations') - 1) :
                    migrations'[k].Revision < migrations'[k + 1].Revision]_vars

\* Revision 1 was registered last of all the revisions: it went in between
\* revision 0 and the higher ones.
C21_Witness ==
    /\ Len(migrations) = MaxRegRev + 1
    /\ last = Outcome("Register", "ok", 1)
    /\ migrations[2].Revision = 1
    /\ migrations[1].Revision = 0 /\ migrations[3].Revision = 2

\* C22: Reset empties the registry whatever it held; in the state it leaves,
\* every Predecessors and Successors query fails with the not-registered
\* error and every Register succeeds, whether or not the revision was
\* registered before the Reset.
C22_ResetEmpties ==
    [][/\ Reset => (migrations' = <<>> /\ last'.res = "ok")
       /\ last.op = "Reset" =>
            \A m \in Registrable :
                /\ (Predecessors(m) \/ Successors(m)) => last'.res = "unregistered"
                /\ Register(m) => (last'.res = "ok" /\ migrations' = <<m>>)]_vars

\* The state a Reset left: the registry is empty, a query for revision 1
\* fails and revision 1 can be registered.
C22_Witness ==
    /\ last = Outcome("Reset", "ok", 0)
    /\ migrations = <<>>
    /\ PredecessorsOf(migrations, 1) = NotRegistered
    /\ SuccessorsOf(migrations, 1) = NotRegistered
    /\ Registered(migrations, Entry(1, NameA)).res = "ok"

\* The entries the Register calls that have returned nil were given.
Stored == {goroutines[g].m : g \in {h \in Goroutines : goroutines[h].res = "ok"}}
Quiet == \A g \in Goroutines : ~InRegister(g)
BothDone == \A g \in Goroutines : goroutines[g].pc = "done"
\* The registry holds exactly the entries of S, in ascending order.
HoldsExactly(S) ==
    /\ Len(migrations) = Cardinality(S)
    /\ {migrations[k] : k \in DOMAIN migrations} = S
    /\ Ascending(migrations)

\* C23: two Register calls for distinct revisions whose callers serialize
\* them both return nil, and whenever no call is under way the registry
\* holds exactly the entries registered so far, in strictly ascending order;
\* Register itself keeps the calls apart by nothing (the witness is the run
\* without serialization that ends with a revision missing).
C23_SerializedRegistersBoth ==
    serialized =>
        /\ Quiet => HoldsExactly(Stored)
        /\ BothDone => \A g \in Goroutines : goroutines[g].res = "ok"

\* Without serialization both calls have returned nil and the registry
\* lacks one of the two revisions and is not strictly ascending.
C23_Witness ==
    /\ ~serialized /\ BothDone
    /\ \A g \in Goroutines : goroutines[g].res = "ok"
    /\ \E g \in Goroutines : goroutines[g].m.Revision \notin RegisteredRevs
    /\ ~Ascending(migrations)

\* Without serialization the registry ends with one revision twice.
C23_WitnessDuplicate ==
    /\ ~serialized /\ BothDone
    /\ \E j, k \in DOMAIN migrations :
        j # k /\ migrations[j].Revision = migrations[k].Revision

\* The step enters Up or Down on some Migration.
IsEntry == \E m \in Entities : Up(m) \/ Down(m)

\* C24: Up, Down, Predecessors and Successors leave the registry as it is,
\* entries and order, and leave the Migration they are called on as it is:
\* the Migration a call is entered with is the one the call runs on, and no
\* later step of the call, nor a query, changes any of its fields (a
\* committed Up does not set Active).
C24_EntityAndRegistryKept ==
    [][/\ migrations' = migrations
       /\ \A m \in Entities : (Up(m) \/ Down(m)) => cur'.m = m
       /\ ~IsEntry => cur'.m = cur.m]_vars

\* An Up of the highest revision committed, a Successors query on the same
\* Migration followed, and the Migration is still inactive, unapplied and
\* unsynchronized; the registry is the one the process started with.
C24_Witness ==
    /\ Returned /\ err = Nil /\ cur.dir = "up" /\ Rev = MaxRev
    /\ Has("update", "ok") /\ Has("commit", "ok")
    /\ db.rows[MaxRev].active
    /\ cur.m = MigrationOf(MaxRev, Unsynced, cur.m.descriptor)
    /\ last = Answer("Successors", "ok", MaxRev, 0)
    /\ migrations = GapRegistry

====
